---- MODULE Spec2Model ----
(***************************************************************************)
(* Model of the offline opening explorer (src/opening_explorer.py):        *)
(* build_index streams game lines, replays each game on a chess board and  *)
(* counts the result under the FEN of every position visited, then pickles *)
(* the mapping to out_file; query_index loads the pickle and prints the    *)
(* counts stored under one FEN.                                            *)
(*                                                                         *)
(* The chess rules engine (python-chess) is modelled on a fragment of the  *)
(* game: the pushes of the d- and e-pawns and the moves of the king's      *)
(* knights between their home squares and f3 / f6, written with the SAN    *)
(* tokens of SanTokens.  Positions reached with these tokens have no       *)
(* check, no pin and no change of castling rights.  What push_san does     *)
(* with any other token that is chess notation (a capture, another piece)  *)
(* is outside the model: Legal is not defined there.                       *)
(*                                                                         *)
(* The pickle file is modelled as the stream of opcodes that pickle.dump   *)
(* writes (protocol 4), each with the offset of its first byte; the close  *)
(* of the file writes the whole stream in one write, and a write that      *)
(* fails leaves the first bytes of it.  pickle.load is modelled as the     *)
(* reads it makes of the file, each of which takes the bytes the file has  *)
(* at that time from the reader's offset on, and the unpickling machine    *)
(* that executes the opcodes read.  Index files are shorter than the       *)
(* buffer of the file object (BufferSize), so that one read takes a file   *)
(* whole.  What the reads of a longer file return, and what a read         *)
(* returns from which a file rewritten meanwhile does not continue the     *)
(* opcodes read before, is outside the model: RawRead is not defined       *)
(* there.                                                                  *)
(***************************************************************************)
EXTENDS Integers, Sequences, FiniteSets, Bags, TLC

\* ------------------------------------------------------------------ bounds
\* Lines read over all build runs together.
MaxLines == 3

\* Lines read, over all runs, by the builds that run beside queries.
MaxQueryLines == 2

\* ------------------------------------------------------- chess.Board model
\* A board: the square of the white king's knight (g1 or f3) and of the
\* black king's knight (g8 or f6), the rank of each of the four pawns on
\* the d- and e-file, the side to move, the square a pawn has just passed
\* over with a two-square push ("-" if the last move was no such push) and
\* the two move counters.

\* chess.Board(): the standard starting position.
Board == [wn |-> "g1", bn |-> "g8", wd |-> 2, we |-> 2, bd |-> 7, be |-> 7,
          turn |-> "w", ep |-> "-", halfmove |-> 0, fullmove |-> 1]

\* The piece letter on file f (1 = a .. 8 = h) of rank r, "" if empty.
Cell(board, f, r) ==
    IF r = 8 THEN (IF f = 7 /\ board.bn # "g8" THEN ""
                   ELSE <<"r", "n", "b", "q", "k", "b", "n", "r">>[f])
    ELSE IF r = 1 THEN (IF f = 7 /\ board.wn # "g1" THEN ""
                        ELSE <<"R", "N", "B", "Q", "K", "B", "N", "R">>[f])
    ELSE IF f = 4 THEN (IF board.wd = r THEN "P"
                        ELSE IF board.bd = r THEN "p" ELSE "")
    ELSE IF f = 5 THEN (IF board.we = r THEN "P"
                        ELSE IF board.be = r THEN "p" ELSE "")
    ELSE IF r = 7 THEN "p"
    ELSE IF r = 2 THEN "P"
    ELSE IF f = 6 /\ r = 3 /\ board.wn = "f3" THEN "N"
    ELSE IF f = 6 /\ r = 6 /\ board.bn = "f6" THEN "n"
    ELSE ""

\* A count of empty squares as FEN writes it.
Run(n) == IF n = 0 THEN "" ELSE <<"1", "2", "3", "4", "5", "6", "7", "8">>[n]

\* The FEN string of rank r from file f on, after n empty squares.
RECURSIVE RankFrom(_, _, _, _)
RankFrom(board, r, f, n) ==
    IF f > 8 THEN Run(n)
    ELSE IF Cell(board, f, r) = "" THEN RankFrom(board, r, f + 1, n + 1)
    ELSE Run(n) \o Cell(board, f, r) \o RankFrom(board, r, f + 1, 0)

\* The eight rank strings of a FEN piece placement, rank 8 first.
Placement(board) == [i \in 1..8 |-> RankFrom(board, 9 - i, 1, 0)]

\* Is an en-passant capture legal?  The pawn that has just made a
\* two-square push stands beside a pawn of the side to move (the d- and
\* the e-file are neighbours; nothing is pinned in the fragment).
has_legal_en_passant(board) ==
    /\ board.ep # "-"
    /\ \/ board.ep = "d3" /\ board.be = 4
       \/ board.ep = "e3" /\ board.bd = 4
       \/ board.ep = "d6" /\ board.we = 5
       \/ board.ep = "e6" /\ board.wd = 5

\* Faulty variant of fen: the two move counters are not part of the key
\* (every key carries the counters of the starting position).
fen_nocounters(board) ==
    [placement |-> Placement(board), turn |-> board.turn,
     castling |-> "KQkq",
     ep |-> IF has_legal_en_passant(board) THEN board.ep ELSE "-",
     halfmove |-> 0, fullmove |-> 1]

\* board.fen(): the six FEN fields.  Castling rights stay KQkq; the
\* en-passant field is the square passed over only when an en-passant
\* capture is legal, "-" otherwise.
fen(board) ==
    [placement |-> Placement(board), turn |-> board.turn,
     castling |-> "KQkq",
     ep |-> IF has_legal_en_passant(board) THEN board.ep ELSE "-",
     halfmove |-> board.halfmove, fullmove |-> board.fullmove]

\* The SAN tokens of the fragment: pawn pushes and knight moves.
PawnTokens == {"d3", "d4", "d5", "d6", "e3", "e4", "e5", "e6"}

KnightTokens == {"Nf3", "Ng1", "Nf6", "Ng8"}

SanTokens == PawnTokens \cup KnightTokens

\* Tokens that are not chess notation at all (a move number).
NotSan == {"1."}

\* The file and the rank a pawn token names.
TokenFile(san) == IF san \in {"d3", "d4", "d5", "d6"} THEN "d" ELSE "e"

TokenRank(san) ==
    IF san \in {"d3", "e3"} THEN 3
    ELSE IF san \in {"d4", "e4"} THEN 4
    ELSE IF san \in {"d5", "e5"} THEN 5
    ELSE 6

\* The rank of the white / black pawn on a file.
WhitePawn(board, file) == IF file = "d" THEN board.wd ELSE board.we

BlackPawn(board, file) == IF file = "d" THEN board.bd ELSE board.be

\* Does the pawn token name a two-square push of the side to move: from
\* the home rank over an empty square onto an empty square.
DoublePush(board, san) ==
    LET f == TokenFile(san)
        r == TokenRank(san)
    IN  IF board.turn = "w"
        THEN WhitePawn(board, f) = 2 /\ r = 4 /\ BlackPawn(board, f) \notin {3, 4}
        ELSE BlackPawn(board, f) = 7 /\ r = 5 /\ WhitePawn(board, f) \notin {5, 6}

\* Does the pawn token name a one-square push of the side to move onto an
\* empty square.
SinglePush(board, san) ==
    LET f == TokenFile(san)
        r == TokenRank(san)
    IN  IF board.turn = "w"
        THEN r = WhitePawn(board, f) + 1 /\ BlackPawn(board, f) # r
        ELSE r = BlackPawn(board, f) - 1 /\ WhitePawn(board, f) # r

\* Is the token a legal move of the side to move?  A token that is not
\* chess notation never is.
Legal(board, san) ==
    CASE san \in PawnTokens -> SinglePush(board, san) \/ DoublePush(board, san)
      [] san = "Nf3" -> board.turn = "w" /\ board.wn = "g1"
      [] san = "Ng1" -> board.turn = "w" /\ board.wn = "f3"
      [] san = "Nf6" -> board.turn = "b" /\ board.bn = "g8"
      [] san = "Ng8" -> board.turn = "b" /\ board.bn = "f6"
      [] san \in NotSan -> FALSE

\* board.push_san(san): ok = FALSE stands for the ValueError raised on an
\* illegal or unparseable token (the board is then left as it was).
push_san(board, san) ==
    IF ~Legal(board, san)
    THEN [ok |-> FALSE, board |-> board]
    ELSE LET pawn == san \in PawnTokens
             f == TokenFile(san)
             r == TokenRank(san)
             w == board.turn = "w"
         IN  [ok |-> TRUE,
              board |->
                [wn |-> IF san = "Nf3" THEN "f3"
                        ELSE IF san = "Ng1" THEN "g1" ELSE board.wn,
                 bn |-> IF san = "Nf6" THEN "f6"
                        ELSE IF san = "Ng8" THEN "g8" ELSE board.bn,
                 wd |-> IF pawn /\ w /\ f = "d" THEN r ELSE board.wd,
                 we |-> IF pawn /\ w /\ f = "e" THEN r ELSE board.we,
                 bd |-> IF pawn /\ ~w /\ f = "d" THEN r ELSE board.bd,
                 be |-> IF pawn /\ ~w /\ f = "e" THEN r ELSE board.be,
                 turn |-> IF w THEN "b" ELSE "w",
                 ep |-> IF pawn /\ DoublePush(board, san)
                        THEN (IF f = "d" THEN (IF w THEN "d3" ELSE "d6")
                              ELSE (IF w THEN "e3" ELSE "e6"))
                        ELSE "-",
                 halfmove |-> IF pawn THEN 0 ELSE board.halfmove + 1,
                 fullmove |-> IF w THEN board.fullmove
                              ELSE board.fullmove + 1]]


\* ------------------------------------------------------------ class Stats
\* Stats.__init__
NewStats == [white |-> 0, draws |-> 0, black |-> 0]

\* Faulty variant of add: the draw bucket is assigned, not incremented.
add_assign(s, result) ==
    IF result = "1-0" THEN [s EXCEPT !.white = @ + 1]
    ELSE IF result = "0-1" THEN [s EXCEPT !.black = @ + 1]
    ELSE [s EXCEPT !.draws = 1]

\* Stats.add
add(s, result) ==
    IF result = "1-0" THEN [s EXCEPT !.white = @ + 1]
    ELSE IF result = "0-1" THEN [s EXCEPT !.black = @ + 1]
    ELSE [s EXCEPT !.draws = @ + 1]

\* Stats.count
count(s) == s.white + s.draws + s.black

\* Stats.to_dict
to_dict(s) ==
    [count |-> count(s), white |-> s.white, draw |-> s.draws,
     black |-> s.black]

\* --------------------------------------------------------------- the text
\* A line of text is a sequence of words; the word " " stands for a run of
\* whitespace, every other word is a run of non-blank characters.
WS == " "

RECURSIVE lstrip(_)
lstrip(line) ==
    IF line # <<>> /\ Head(line) = WS THEN lstrip(Tail(line)) ELSE line

RECURSIVE rstrip(_)
rstrip(line) ==
    IF line # <<>> /\ line[Len(line)] = WS
    THEN rstrip(SubSeq(line, 1, Len(line) - 1)) ELSE line

\* str.strip()
strip(line) == rstrip(lstrip(line))

\* str.split(): the non-blank words in order.
split(line) == SelectSeq(line, LAMBDA w : w # WS)

\* Faulty variant of parse_game: a line of one token is not a game.
parse_game_two(line) ==
    LET parts == split(strip(line)) IN
    IF Len(parts) < 2
    THEN [none |-> TRUE, moves |-> <<>>, result |-> ""]
    ELSE [none |-> FALSE, moves |-> SubSeq(parts, 1, Len(parts) - 1),
          result |-> parts[Len(parts)]]

\* parse_game: moves = None is the (None, None) return.
parse_game(line) ==
    LET parts == split(strip(line)) IN
    IF parts = <<>>
    THEN [none |-> TRUE, moves |-> <<>>, result |-> ""]
    ELSE [none |-> FALSE, moves |-> SubSeq(parts, 1, Len(parts) - 1),
          result |-> parts[Len(parts)]]

\* ---------------------------------------------------------------- dicts
\* A dict is the sequence of its items [key, value] in insertion order.
EmptyIndex == <<>>

Keys(d) == {d[i].key : i \in 1..Len(d)}

Find(d, k) == CHOOSE i \in 1..Len(d) : d[i].key = k

\* d[k] = v: a key already there keeps its place, a new key goes last.
SetItem(d, k, v) ==
    IF k \in Keys(d) THEN [d EXCEPT ![Find(d, k)].value = v]
    ELSE Append(d, [key |-> k, value |-> v])

\* The Stats under a key; for a key that is absent, what defaultdict(Stats)
\* creates and what query_index prints the zero triple for.
Get(d, k) == IF k \in Keys(d) THEN d[Find(d, k)].value ELSE NewStats

\* stats[key].add(result) on a defaultdict(Stats)
Record(idx, key, result) == SetItem(idx, key, add(Get(idx, key), result))

\* The loop over the moves of one game: stops at the first token push_san
\* rejects (raised), keeping what was recorded before.
RECURSIVE Replay(_, _, _, _)
Replay(idx, board, moves, result) ==
    IF moves = <<>> THEN [stats |-> idx, raised |-> FALSE]
    ELSE LET r == push_san(board, Head(moves)) IN
         IF ~r.ok THEN [stats |-> idx, raised |-> TRUE]
         ELSE Replay(Record(idx, fen(r.board), result), r.board,
                     Tail(moves), result)

\* One iteration of the loop over the lines of a file.
IngestLine(idx, line) ==
    LET s == strip(line)
        g == parse_game(s)
    IN  IF s = <<>> THEN [stats |-> idx, raised |-> FALSE]
        ELSE IF g.none THEN [stats |-> idx, raised |-> FALSE]
        ELSE Replay(Record(idx, fen(Board), g.result), Board, g.moves,
                    g.result)

\* ------------------------------------------------------ the pickle stream
\* The destination file: exists = FALSE when there is no such file, else
\* size is the number of its bytes and items holds the opcodes that have
\* a byte in it, each with the offset of its first byte (the last one may
\* be cut by the end of the file).
NoFile == [exists |-> FALSE, items |-> <<>>, size |-> 0]

\* Length of a decimal counter of a FEN.
Digits(n) == IF n < 10 THEN 1 ELSE 2

\* Number of characters of the FEN string of a key: the eight ranks with
\* their seven slashes, and the five other fields each after one blank.
KeyLen(k) ==
    Len(k.placement[1]) + Len(k.placement[2]) + Len(k.placement[3])
    + Len(k.placement[4]) + Len(k.placement[5]) + Len(k.placement[6])
    + Len(k.placement[7]) + Len(k.placement[8]) + 7
    + 1 + Len(k.turn) + 1 + Len(k.castling) + 1 + Len(k.ep)
    + 1 + Digits(k.halfmove) + 1 + Digits(k.fullmove)

\* The key field of an opcode or value that is no FEN string.
NoKey ==
    [placement |-> <<>>, turn |-> "", castling |-> "", ep |-> "",
     halfmove |-> 0, fullmove |-> 0]

\* An opcode: its name, its argument - a FEN string (key, with s = ""),
\* another string (s), or a number (n) - and the offset of its first byte.
Op(name) == [op |-> name, key |-> NoKey, s |-> "", n |-> 0, at |-> 0]

OpKey(k) == [Op("SHORT_BINUNICODE") EXCEPT !.key = k]

OpStr(s) == [Op("SHORT_BINUNICODE") EXCEPT !.s = s]

\* BINGET of the memo entry that holds the class or the string named s.
OpGet(s) == [Op("BINGET") EXCEPT !.s = s]

OpInt(n) == [Op("BININT1") EXCEPT !.n = n]

STOP == Op("STOP")

\* Bytes an opcode takes in the file, argument included.
OpLen(o) ==
    CASE o.op = "PROTO" -> 2
      [] o.op = "FRAME" -> 9
      [] o.op = "SHORT_BINUNICODE" ->
            2 + (IF o.s = "" THEN KeyLen(o.key) ELSE Len(o.s))
      [] o.op \in {"BINGET", "BININT1"} -> 2
      [] OTHER -> 1

\* The offset of the byte after the last opcode of a placed stream.
End(ops) ==
    IF ops = <<>> THEN 0 ELSE ops[Len(ops)].at + OpLen(ops[Len(ops)])

\* The opcodes from the i-th on, one after the other from offset at.
RECURSIVE Place(_, _, _)
Place(ops, i, at) ==
    IF i > Len(ops) THEN <<>>
    ELSE <<[ops[i] EXCEPT !.at = at]>>
         \o Place(ops, i + 1, at + OpLen(ops[i]))

\* One item of the dict: the key, the Stats object made without __init__
\* (NEWOBJ), and its __dict__ set by BUILD.  The first item of a stream
\* spells out the class and the attribute names, which the memo then
\* holds; later items refer to the memo (BINGET).
PickleItem(item, first) ==
    <<OpKey(item.key), Op("MEMOIZE")>>
    \o (IF first
        THEN <<OpStr("__main__"), Op("MEMOIZE"), OpStr("Stats"),
               Op("MEMOIZE"), Op("STACK_GLOBAL"), Op("MEMOIZE")>>
        ELSE <<OpGet("Stats")>>)
    \o <<Op("EMPTY_TUPLE"), Op("NEWOBJ"), Op("MEMOIZE"), Op("EMPTY_DICT"),
         Op("MEMOIZE"), Op("MARK")>>
    \o (IF first THEN <<OpStr("white"), Op("MEMOIZE")>> ELSE <<OpGet("white")>>)
    \o <<OpInt(item.value.white)>>
    \o (IF first THEN <<OpStr("draws"), Op("MEMOIZE")>> ELSE <<OpGet("draws")>>)
    \o <<OpInt(item.value.draws)>>
    \o (IF first THEN <<OpStr("black"), Op("MEMOIZE")>> ELSE <<OpGet("black")>>)
    \o <<OpInt(item.value.black)>>
    \o <<Op("SETITEMS"), Op("BUILD")>>

\* The items from the i-th on, from offset at.
RECURSIVE PickleItems(_, _, _)
PickleItems(idx, i, at) ==
    IF i > Len(idx) THEN <<>>
    ELSE LET placed == Place(PickleItem(idx[i], i = 1), 1, at)
         IN  placed \o PickleItems(idx, i + 1, End(placed))

\* pickle.dump(dict(stats), f): the whole stream.  An empty dict is
\* written without a frame; otherwise one frame holds everything after
\* its header.  A dict of one item is written as key, value, SETITEM; a
\* larger one as its items in the dict's order between MARK and SETITEMS.
Serialize(idx) ==
    IF idx = <<>>
    THEN Place(<<[Op("PROTO") EXCEPT !.n = 4], Op("EMPTY_DICT"),
                 Op("MEMOIZE"), STOP>>, 1, 0)
    ELSE LET open == Place(<<Op("EMPTY_DICT"), Op("MEMOIZE")>>
                           \o (IF Len(idx) = 1 THEN <<>> ELSE <<Op("MARK")>>),
                           1, 11)
             items == PickleItems(idx, 1, End(open))
             close == Place(<<Op(IF Len(idx) = 1 THEN "SETITEM"
                                 ELSE "SETITEMS"), STOP>>, 1, End(items))
         IN  Place(<<[Op("PROTO") EXCEPT !.n = 4],
                     [Op("FRAME") EXCEPT !.n = End(close) - 11]>>, 1, 0)
             \o open \o items \o close

\* ---------------------------------------------------- the unpickling machine
\* A value on the unpickler's stack: a str (a FEN string, or the text s),
\* an int (n), the empty tuple, the class Stats, an instance of Stats
\* (n tells the instances apart, d is its __dict__) or a dict (d); d is
\* the sequence of the items [k, v] in insertion order.
Value(t) == [t |-> t, s |-> "", key |-> NoKey, n |-> 0, d |-> <<>>]

StrValue(o) == [Value("str") EXCEPT !.s = o.s, !.key = o.key]

FenValue(k) == [Value("str") EXCEPT !.key = k]

IntValue(n) == [Value("int") EXCEPT !.n = n]

\* dict[k] = v: a key already there keeps its place, a new key goes last.
DictSet(d, k, v) ==
    IF \E i \in 1..Len(d) : d[i].k = k
    THEN [d EXCEPT ![CHOOSE i \in 1..Len(d) : d[i].k = k].v = v]
    ELSE Append(d, [k |-> k, v |-> v])

\* dict.update with the pairs of a flat sequence k1, v1, k2, v2, ...
RECURSIVE DictSetAll(_, _)
DictSetAll(d, flat) ==
    IF flat = <<>> THEN d
    ELSE DictSetAll(DictSet(d, flat[1], flat[2]), SubSeq(flat, 3, Len(flat)))

RECURSIVE DictUpdate(_, _)
DictUpdate(d, items) ==
    IF items = <<>> THEN d
    ELSE DictUpdate(DictSet(d, Head(items).k, Head(items).v), Tail(items))

\* The machine: its stack, the stack heights at which a MARK was set, the
\* number of instances made, and how it stands: "run", "raised" (an
\* exception left pickle.load) or "done" (STOP returned the stack's top).
NewMachine == [stack |-> <<>>, marks |-> <<>>, made |-> 0, state |-> "run"]

\* Nothing at or below the last MARK may be popped.
Fence(m) == IF m.marks = <<>> THEN 0 ELSE m.marks[Len(m.marks)]

Raise(m) == [m EXCEPT !.state = "raised"]

Push(m, v) == [m EXCEPT !.stack = Append(@, v)]

\* SETITEM: the value and the key on top of the stack are set in the dict
\* below them.
SetItem1(m) ==
    LET n == Len(m.stack) IN
    IF n - 3 < Fence(m) THEN Raise(m)
    ELSE IF m.stack[n - 2].t # "dict" \/ m.stack[n - 1].t = "dict"
    THEN Raise(m)
    ELSE [m EXCEPT
            !.stack = Append(SubSeq(m.stack, 1, n - 3),
                             [m.stack[n - 2] EXCEPT
                                !.d = DictSet(@, m.stack[n - 1], m.stack[n])])]

\* SETITEMS: the values above the last MARK, taken in pairs, are set in
\* the dict just below it.
SetItems(m) ==
    IF m.marks = <<>> THEN Raise(m)
    ELSE LET x == m.marks[Len(m.marks)]
             below == [m EXCEPT !.marks = SubSeq(@, 1, Len(@) - 1)]
             n == Len(m.stack)
             flat == SubSeq(m.stack, x + 1, n)
         IN  IF x > n \/ x <= Fence(below) THEN Raise(m)
             ELSE IF n = x THEN below
             ELSE IF (n - x) % 2 # 0 THEN Raise(m)
             ELSE IF m.stack[x].t # "dict" THEN Raise(m)
             ELSE IF \E i \in 1..Len(flat) : i % 2 = 1 /\ flat[i].t = "dict"
                  THEN Raise(m)
             ELSE [below EXCEPT
                     !.stack = Append(SubSeq(m.stack, 1, x - 1),
                                      [m.stack[x] EXCEPT
                                         !.d = DictSetAll(@, flat)])]

\* BUILD: the state on top of the stack updates the __dict__ of the
\* instance below it.
Build(m) ==
    LET n == Len(m.stack) IN
    IF n - 2 < Fence(m) THEN Raise(m)
    ELSE LET state == m.stack[n]
             inst == m.stack[n - 1]
         IN  IF state.t # "dict" THEN Raise(m)
             ELSE IF inst.t = "obj"
             THEN [m EXCEPT
                     !.stack = Append(SubSeq(m.stack, 1, n - 2),
                                      [inst EXCEPT
                                         !.d = DictUpdate(@, state.d)])]
             ELSE IF inst.t = "class" /\ state.d = <<>>
             THEN [m EXCEPT !.stack = SubSeq(m.stack, 1, n - 1)]
             ELSE Raise(m)

\* One opcode executed.
Exec(m, o) ==
    LET n == Len(m.stack) IN
    CASE o.op \in {"PROTO", "FRAME"} -> m
      [] o.op = "EMPTY_DICT" -> Push(m, Value("dict"))
      [] o.op = "MEMOIZE" -> IF n <= Fence(m) THEN Raise(m) ELSE m
      [] o.op = "MARK" -> [m EXCEPT !.marks = Append(@, n)]
      [] o.op = "SHORT_BINUNICODE" -> Push(m, StrValue(o))
      [] o.op = "BINGET" ->
            Push(m, IF o.s = "Stats" THEN Value("class") ELSE StrValue(o))
      [] o.op = "STACK_GLOBAL" ->
            IF n - 2 < Fence(m) THEN Raise(m)
            ELSE IF /\ m.stack[n - 1].t = "str" /\ m.stack[n - 1].s = "__main__"
                    /\ m.stack[n].t = "str" /\ m.stack[n].s = "Stats"
            THEN [m EXCEPT !.stack = Append(SubSeq(@, 1, n - 2), Value("class"))]
            ELSE Raise(m)
      [] o.op = "EMPTY_TUPLE" -> Push(m, Value("tuple"))
      [] o.op = "NEWOBJ" ->
            IF n - 2 < Fence(m) THEN Raise(m)
            ELSE IF m.stack[n].t = "tuple" /\ m.stack[n - 1].t = "class"
            THEN [m EXCEPT
                    !.stack = Append(SubSeq(@, 1, n - 2),
                                     [Value("obj") EXCEPT !.n = m.made + 1]),
                    !.made = @ + 1]
            ELSE Raise(m)
      [] o.op = "BININT1" -> Push(m, IntValue(o.n))
      [] o.op = "SETITEM" -> SetItem1(m)
      [] o.op = "SETITEMS" -> SetItems(m)
      [] o.op = "BUILD" -> Build(m)
      [] o.op = "STOP" ->
            IF n <= Fence(m) THEN Raise(m) ELSE [m EXCEPT !.state = "done"]

\* What pickle.load returns once the machine is done.
Result(m) == m.stack[Len(m.stack)]

\* The opcodes lo..hi of a stream executed one after the other, as long
\* as the machine runs.
RECURSIVE Steps(_, _, _, _)
Steps(m, ops, lo, hi) ==
    IF lo > hi \/ m.state # "run" THEN m
    ELSE IF lo = hi THEN Exec(m, ops[lo])
    ELSE LET mid == (lo + hi) \div 2
             half == Steps(m, ops, lo, mid)
         IN  IF half.state # "run" THEN half
             ELSE Steps(half, ops, mid + 1, hi)

\* ------------------------------------------------------------- the files
\* The file that holds a whole stream.
WholeFile(ops) == [exists |-> TRUE, items |-> ops, size |-> End(ops)]

\* The file that holds the first n bytes of a stream.
CutFile(ops, n) ==
    [exists |-> TRUE,
     items |-> SelectSeq(ops, LAMBDA o : o.at < n),
     size |-> n]

\* ------------------------------------------------------------- the reader
\* open(index_file, "rb"): the size of the buffer of the file object, the
\* block size of the file system.  One read of the file asks for that many
\* bytes.
BufferSize == 4096

\* What pickle.load has of the file: the opcodes of which it has read a
\* byte (data; the last one may be cut), the number of bytes read (pos),
\* the offset of the first byte that the unpickler waits for (want),
\* whether the next read is one that raises at the end of the file
\* (strict), and whether the frame was read by itself (alone).  The
\* unpickler takes the stream in units - an opcode, an argument, a whole
\* frame.  For a unit it has not, it first peeks, which reads the file
\* only when the buffer of the file object is empty and may return
\* nothing, and then, if the unit is not there, reads the unit, which
\* reads the file until the unit is there or a read returns nothing.
NewReader ==
    [data |-> <<>>, pos |-> 0, want |-> 0, strict |-> FALSE, alone |-> FALSE]

\* The opcodes read to their last byte.
WholeOps(r) ==
    IF r.data # <<>> /\ r.pos < End(r.data)
    THEN SubSeq(r.data, 1, Len(r.data) - 1)
    ELSE r.data

\* The opcode read in part, as a one-element or empty sequence.
CutOp(r) ==
    IF r.data # <<>> /\ r.pos < End(r.data)
    THEN <<r.data[Len(r.data)]>>
    ELSE <<>>

\* The offset at which the frame of the bytes read ends (0: the length of
\* the frame is not read yet, or the stream has none).
FrameEnd(r) ==
    IF Len(WholeOps(r)) >= 2 /\ r.data[2].op = "FRAME"
    THEN r.data[2].at + 9 + r.data[2].n
    ELSE 0

\* The length of a frame read from two files: the first k bytes of the
\* eight (least significant first) from the one, the others from the
\* other.  The lengths are less than 65536.
FrameLength(one, other, k) ==
    CASE k = 0 -> other
      [] k = 1 -> (one % 256) + (other \div 256) * 256
      [] OTHER -> one

\* The opcodes of the file from which a read at the reader's offset
\* continues: the one that begins there or, when the reader has an opcode
\* in part, the one in the same place that is the same opcode.  The bytes
\* read of the opcode are then those the file has too (all of them, or
\* just the opcode's own byte), but for the length of a frame.
Continues(r, ops) ==
    IF CutOp(r) = <<>>
    THEN {i \in 1..Len(ops) : ops[i].at = r.pos}
    ELSE LET o == CutOp(r)[1] IN
         {i \in 1..Len(ops) :
             /\ ops[i].at = o.at
             /\ ops[i].op = o.op
             /\ \/ r.pos = o.at + 1
                \/ ops[i] = o
                \/ o.op = "FRAME"}

\* Has the reader a STOP?  No byte after it is executed.
Stopped(r) == \E i \in 1..Len(WholeOps(r)) : r.data[i].op = "STOP"

\* One read of the file as it is now, from the reader's offset: it takes
\* all the bytes up to the end of the file.  The frame is read by itself
\* when a strict read completes it.  Not described here: the reads of a
\* file that ends more than BufferSize bytes after the offset (they are
\* several), and a read at an offset from which the file does not
\* continue what was read (the bytes read are then executed as opcodes
\* that no stream of pickle.dump has).
RawRead(r, file) ==
    LET n == IF file.size > r.pos THEN file.size - r.pos ELSE 0
        ops == file.items
        alone == \/ r.alone
                 \/ /\ r.strict
                    /\ 0 < FrameEnd(r)
                    /\ r.pos < FrameEnd(r)
                    /\ FrameEnd(r) <= file.size
    IN  CASE n = 0 -> r
          [] 0 < n /\ n <= BufferSize /\ Stopped(r) ->
                [r EXCEPT !.pos = file.size, !.alone = alone]
          [] 0 < n /\ n <= BufferSize /\ ~Stopped(r)
             /\ Continues(r, ops) # {} ->
                LET i == CHOOSE j \in Continues(r, ops) : TRUE
                    op == IF CutOp(r) # <<>> /\ ops[i].op = "FRAME"
                          THEN [ops[i] EXCEPT
                                  !.n = FrameLength(CutOp(r)[1].n, @,
                                                    r.pos - ops[i].at - 1)]
                          ELSE ops[i]
                IN  [r EXCEPT
                       !.data = WholeOps(r) \o <<op>>
                                \o SubSeq(ops, i + 1, Len(ops)),
                       !.pos = file.size,
                       !.alone = alone]

\* The strings of the bytes read whose text lies across the end of the
\* frame.
Across(r) ==
    {i \in 1..Len(r.data) :
        /\ r.data[i].op = "SHORT_BINUNICODE"
        /\ r.data[i].at + 2 < FrameEnd(r)
        /\ FrameEnd(r) < r.data[i].at + OpLen(r.data[i])}

\* The offset of the first byte of the unit that the opcode read in part
\* still misses: the length of a frame, the text of a string, or a
\* one-byte argument.
UnitStart(o, pos) ==
    CASE o.op = "FRAME" -> o.at + 1
      [] o.op = "SHORT_BINUNICODE" -> IF pos < o.at + 2 THEN pos ELSE o.at + 2
      [] OTHER -> pos

\* pickle.load on what it has read: "more" when it waits for bytes it has
\* not, from offset want on (no opcode of a frame is executed before the
\* whole frame is read), "done" when it has executed the STOP, "raised"
\* when an opcode raises.  After a frame that was read by itself, a string
\* whose text lies across the end of the frame is taken from the bytes
\* after the frame, as many as the string is long: they run into the
\* opcode after the string, which is no UTF-8.
Unpickle(r) ==
    LET whole == WholeOps(r)
        across == r.alone /\ Across(r) # {}
        cut == IF across
               THEN CHOOSE i \in Across(r) : \A j \in Across(r) : i <= j
               ELSE Len(whole) + 1
        m == Steps(NewMachine, whole, 1, cut - 1)
    IN  IF r.pos < FrameEnd(r)
        THEN [state |-> "more", m |-> NewMachine,
              want |-> r.data[2].at + 9]
        ELSE IF m.state # "run" THEN [state |-> m.state, m |-> m, want |-> 0]
        ELSE IF across
        THEN IF r.pos >= FrameEnd(r) + OpLen(r.data[cut]) - 2
             THEN [state |-> "raised", m |-> m, want |-> 0]
             ELSE [state |-> "more", m |-> m, want |-> FrameEnd(r)]
        ELSE IF CutOp(r) # <<>>
        THEN [state |-> "more", m |-> m,
              want |-> UnitStart(CutOp(r)[1], r.pos)]
        ELSE [state |-> "more", m |-> m, want |-> r.pos]

\* The reader after a read that left the unpickler waiting: the next read
\* is strict when the unpickler waits for the same bytes as before the
\* read, or when bytes it has not yet taken are in the buffer.
Await(r0, r, want) ==
    [r EXCEPT !.want = want,
              !.strict = (want = r0.want) \/ (want < r.pos)]

\* pickle.load of a file that nobody writes meanwhile: the machine at the
\* end (a file that ends before the STOP raises).
ReadAll(ops) ==
    LET m == Steps(NewMachine, ops, 1, Len(ops))
    IN  IF m.state = "run" THEN Raise(m) ELSE m

\* Is the value an index: a dict from FEN strings to Stats instances that
\* have exactly the three counters.
IsIndex(v) ==
    /\ v.t = "dict"
    /\ \A i \in 1..Len(v.d) :
          /\ v.d[i].k.t = "str" /\ v.d[i].k.s = ""
          /\ v.d[i].v.t = "obj"
          /\ Len(v.d[i].v.d) = 3
          /\ \A j \in 1..3 :
                /\ v.d[i].v.d[j].k
                   = [Value("str") EXCEPT
                        !.s = <<"white", "draws", "black">>[j]]
                /\ v.d[i].v.d[j].v.t = "int"

\* The index as build_index holds it.
AsIndex(v) ==
    [i \in 1..Len(v.d) |->
        [key |-> v.d[i].k.key,
         value |-> [white |-> v.d[i].v.d[1].v.n, draws |-> v.d[i].v.d[2].v.n,
                    black |-> v.d[i].v.d[3].v.n]]]

\* Would open + pickle.load succeed on the file as it is?
Loadable(d) ==
    /\ d.exists
    /\ d.items # <<>>
    /\ d.size = End(d.items)
    /\ d.items[Len(d.items)].op = "STOP"
    /\ LET m == ReadAll(d.items)
       IN  m.state = "done" /\ IsIndex(Result(m))

\* pickle.load of the file as it is.
Load(d) == AsIndex(Result(ReadAll(d.items)))

\* ------------------------------------------------------------- the inputs
RECURSIVE Join(_)
Join(tokens) ==
    IF Len(tokens) <= 1 THEN tokens
    ELSE <<Head(tokens), WS>> \o Join(Tail(tokens))

\* A line as the file iterator yields it: the tokens, then the newline.
TextLine(tokens) == Join(tokens) \o <<WS>>

\* Games whose tokens are all legal and whose result is known: a game with
\* leading whitespace, a game without moves, a repetition that returns to
\* the starting placement, and two move orders reaching one placement.
GoodLines ==
    { <<WS>> \o TextLine(<<"e4", "e5", "1-0">>),
      TextLine(<<"1-0">>),
      TextLine(<<"Nf3", "Nf6", "Ng1", "Ng8", "1/2-1/2">>),
      TextLine(<<"d4", "Nf6", "Nf3", "0-1">>),
      TextLine(<<"Nf3", "Nf6", "d4", "0-1">>) }

\* Games with a token push_san rejects: an illegal second move and an
\* unparseable first token (a move number).
BadMoveLines ==
    { TextLine(<<"e4", "e4", "1-0">>),
      TextLine(<<"1.", "e4", "0-1">>) }

\* A game with the unknown result, and lines without a result field.
NoResultLines ==
    { TextLine(<<"e4", "*">>),
      TextLine(<<"e4", "Nf6">>),
      TextLine(<<"e4">>) }

\* The blank line that separates games.
BlankLine == <<WS>>

Lines == GoodLines \cup BadMoveLines \cup NoResultLines \cup {BlankLine}

\* The lines of the corpora that builds read while queries run.  They
\* begin with one move, so that the streams of their indexes have the
\* same opcodes in the same places up to the end of the second item (but
\* for the length of the frame and the counts).
QueryLines ==
    { TextLine(<<"e4", "e5", "1-0">>),
      TextLine(<<"e4", "d5", "e5", "0-1">>),
      TextLine(<<"e4", "e5", "d4", "1/2-1/2">>) }

\* Numbers of bytes that a write which fails leaves in the file: none,
\* some of the length of the frame, the header, and bytes of the first and
\* of the second item, one ending with an opcode and one inside a string.
ShortWrites == {0, 5, 11, 100, 150}

\* A FEN no game of the fragment reaches (Black to move at the start).
UnseenFen == [fen(Board) EXCEPT !.turn = "b"]

\* FENs a query asks for: the start, which every game reaches, and the
\* position after 1.e4 e5, which some games do not reach.
QueryFens ==
    { fen(Board),
      fen(push_san(push_san(Board, "e4").board, "e5").board) }

\* ------------------------------------------------------------------ state
VARIABLES
    pc,         \* where the build command is: "idle" (not running), "start"
                \* (no source opened yet), "reading" (a source is open),
                \* "between" (the source was closed), "saving" (out_file is
                \* open), "done", or "failed" (an exception ended it)
    stats,      \* build_index: the defaultdict being filled
    disk,       \* the destination / index file
    pickled,    \* pickle.dump: the stream in the buffer of the file object
    held,       \* history: whether the file holds the whole stream of an
                \* index, and the index (the stats of the build that saved it)
    q,          \* query_index: whether a query has the file open, the fen
                \* it asks for, the reader of pickle.load, and (history)
                \* what the file held when a read first returned bytes
    out,        \* query_index: what the last query printed, and (history)
                \* the reader and the src of q when it ended
    ingested,   \* history: bag of the lines read by this build run
    last,       \* history: the line read by the last step and stats before it
    startDisk,  \* history: the destination file when this build run began
    nread       \* lines read over all runs

vars ==
    <<pc, stats, disk, pickled, held, q, out, ingested, last, startDisk, nread>>

NoIndex == [full |-> FALSE, index |-> EmptyIndex]

NoQuery == [active |-> FALSE, fen |-> UnseenFen, reader |-> NewReader,
            src |-> NoIndex]

NoOutput == [set |-> FALSE, fen |-> UnseenFen, error |-> FALSE,
             printed |-> to_dict(NewStats), reader |-> NewReader,
             src |-> NoIndex]

NoLast == [set |-> FALSE, line |-> <<>>, before |-> EmptyIndex,
           raised |-> FALSE]

Init ==
    /\ pc = "idle"
    /\ stats = EmptyIndex
    /\ disk = NoFile
    /\ pickled = <<>>
    /\ held = NoIndex
    /\ q = NoQuery
    /\ out = NoOutput
    /\ ingested = EmptyBag
    /\ last = NoLast
    /\ startDisk = NoFile
    /\ nread = 0

\* ---------------------------------------------------------------- actions
\* build_index is entered, against the destination file as it is.
StartBuild ==
    /\ pc \in {"idle", "done", "failed"}
    /\ pc' = "start"
    /\ stats' = EmptyIndex
    /\ ingested' = EmptyBag
    /\ startDisk' = disk
    /\ last' = NoLast
    /\ out' = NoOutput
    /\ UNCHANGED <<disk, pickled, held, q, nread>>

\* open(pgn_path, "rb") and the stream reader on it, for the next path.
OpenFile ==
    /\ pc \in {"start", "between"}
    /\ pc' = "reading"
    /\ last' = NoLast
    /\ out' = NoOutput
    /\ UNCHANGED <<stats, disk, pickled, held, q, ingested, startDisk, nread>>

\* The source cannot be opened: the exception ends the build.
OpenFileFails ==
    /\ pc \in {"start", "between"}
    /\ pc' = "failed"
    /\ last' = NoLast
    /\ out' = NoOutput
    /\ UNCHANGED <<stats, disk, pickled, held, q, ingested, startDisk, nread>>

\* One iteration of "for line in text": an exception from push_san is not
\* caught anywhere and ends build_index before the index is written.
ReadLine(line) ==
    /\ pc = "reading"
    /\ nread < MaxLines
    /\ LET r == IngestLine(stats, line) IN
        /\ stats' = r.stats
        /\ pc' = IF r.raised THEN "failed" ELSE "reading"
        /\ last' = [set |-> TRUE, line |-> line, before |-> stats,
                    raised |-> r.raised]
    /\ ingested' = ingested (+) SetToBag({line})
    /\ nread' = nread + 1
    /\ out' = NoOutput
    /\ UNCHANGED <<disk, pickled, held, q, startDisk>>

\* The compressed stream is corrupt: the read raises.
StreamFails ==
    /\ pc = "reading"
    /\ pc' = "failed"
    /\ last' = NoLast
    /\ out' = NoOutput
    /\ UNCHANGED <<stats, disk, pickled, held, q, ingested, startDisk, nread>>

\* The text iterator is exhausted; the with block closes the file.
EndOfFile ==
    /\ pc = "reading"
    /\ pc' = "between"
    /\ last' = NoLast
    /\ out' = NoOutput
    /\ UNCHANGED <<stats, disk, pickled, held, q, ingested, startDisk, nread>>

\* No path is left (none at all when pgns is empty): open(out_file, "wb")
\* truncates the destination, and pickle.dump writes the stream to the
\* file object, which keeps it in its buffer.
SaveOpen ==
    /\ pc \in {"start", "between"}
    /\ disk' = WholeFile(<<>>)
    /\ pickled' = Serialize(stats)
    /\ held' = NoIndex
    /\ pc' = "saving"
    /\ last' = NoLast
    /\ out' = NoOutput
    /\ UNCHANGED <<stats, q, ingested, startDisk, nread>>

\* The destination cannot be opened for writing.
SaveOpenFails ==
    /\ pc \in {"start", "between"}
    /\ pc' = "failed"
    /\ last' = NoLast
    /\ out' = NoOutput
    /\ UNCHANGED <<stats, disk, pickled, held, q, ingested, startDisk, nread>>

\* The with block closes the file: the buffer is flushed, and the whole
\* stream reaches the file in one write.
SaveClose ==
    /\ pc = "saving"
    /\ disk' = WholeFile(pickled)
    /\ held' = [full |-> TRUE, index |-> stats]
    /\ pc' = "done"
    /\ pickled' = <<>>
    /\ last' = NoLast
    /\ out' = NoOutput
    /\ UNCHANGED <<stats, q, ingested, startDisk, nread>>

\* The write of the flush takes only the first n bytes of the stream (the
\* disk is full, the file may not grow further) and its repetition with
\* the rest raises, or the process dies before the flush (n = 0): the
\* exception leaves the with block.
SaveFails(n) ==
    /\ pc = "saving"
    /\ n < End(pickled)
    /\ disk' = CutFile(pickled, n)
    /\ pc' = "failed"
    /\ pickled' = <<>>
    /\ last' = NoLast
    /\ out' = NoOutput
    /\ UNCHANGED <<stats, held, q, ingested, startDisk, nread>>

\* The instance attribute of that name, as a one-element or empty sequence.
Attr(v, name) ==
    SelectSeq(v.d, LAMBDA it : it.k = [Value("str") EXCEPT !.s = name])

\* bool(v) as "if stats:" takes it.
Truthy(v) ==
    CASE v.t = "int" -> v.n # 0
      [] v.t = "dict" -> v.d # <<>>
      [] v.t = "tuple" -> FALSE
      [] OTHER -> TRUE

\* Faulty variant of Lookup: the fen is looked up with data[fen], which
\* raises for a key that is absent.
Lookup_subscript(data, f) ==
    LET zero == [count |-> 0, white |-> 0, draw |-> 0, black |-> 0]
        hits == IF data.t = "dict"
                THEN SelectSeq(data.d, LAMBDA it : it.k = FenValue(f))
                ELSE <<>>
    IN  IF data.t # "dict" \/ hits = <<>>
        THEN [raised |-> TRUE, printed |-> zero]
        ELSE LET v == hits[1].v
                 w == Attr(v, "white")
                 d == Attr(v, "draws")
                 b == Attr(v, "black")
             IN  IF /\ v.t = "obj"
                    /\ w # <<>> /\ d # <<>> /\ b # <<>>
                    /\ w[1].v.t = "int" /\ d[1].v.t = "int"
                    /\ b[1].v.t = "int"
                 THEN [raised |-> FALSE,
                       printed |-> to_dict([white |-> w[1].v.n,
                                            draws |-> d[1].v.n,
                                            black |-> b[1].v.n])]
                 ELSE [raised |-> TRUE, printed |-> zero]

\* stats = data.get(fen) and the dict printed: the zero triple when the
\* fen is no key of data (or what is stored is falsy), the counts of the
\* Stats stored otherwise.  raised: data has no get, or what is stored has
\* no to_dict or not the three counters.
Lookup(data, f) ==
    LET zero == [count |-> 0, white |-> 0, draw |-> 0, black |-> 0]
        hits == IF data.t = "dict"
                THEN SelectSeq(data.d, LAMBDA it : it.k = FenValue(f))
                ELSE <<>>
    IN  IF data.t # "dict" THEN [raised |-> TRUE, printed |-> zero]
        ELSE IF hits = <<>> THEN [raised |-> FALSE, printed |-> zero]
        ELSE LET v == hits[1].v
                 w == Attr(v, "white")
                 d == Attr(v, "draws")
                 b == Attr(v, "black")
             IN  IF ~Truthy(v) THEN [raised |-> FALSE, printed |-> zero]
                 ELSE IF /\ v.t = "obj"
                         /\ w # <<>> /\ d # <<>> /\ b # <<>>
                         /\ w[1].v.t = "int" /\ d[1].v.t = "int"
                         /\ b[1].v.t = "int"
                 THEN [raised |-> FALSE,
                       printed |-> to_dict([white |-> w[1].v.n,
                                            draws |-> d[1].v.n,
                                            black |-> b[1].v.n])]
                 ELSE [raised |-> TRUE, printed |-> zero]

\* query_index: open(index_file, "rb") on a file that exists.
QueryOpen(f) ==
    /\ ~q.active
    /\ disk.exists
    /\ q' = [active |-> TRUE, fen |-> f, reader |-> NewReader,
             src |-> NoIndex]
    /\ out' = NoOutput
    /\ last' = NoLast
    /\ UNCHANGED <<pc, stats, disk, pickled, held, ingested, startDisk, nread>>

\* query_index: there is no such file, open raises.
QueryOpenFails(f) ==
    /\ ~q.active
    /\ ~disk.exists
    /\ out' = [set |-> TRUE, fen |-> f, error |-> TRUE,
               printed |-> to_dict(NewStats), reader |-> NewReader,
               src |-> NoIndex]
    /\ last' = NoLast
    /\ UNCHANGED <<pc, stats, disk, pickled, held, q, ingested, startDisk,
                   nread>>

\* pickle.load reads the file as it is now, from its offset.  With the
\* STOP executed it returns, and the query looks its fen up and prints (or
\* ends with the exception of the lookup).  When an opcode raises, or
\* when the unpickler waits for bytes and a strict read returns none (the
\* end of the file), the query ends with the exception.  Otherwise
\* pickle.load is to read again.
QueryRead ==
    /\ q.active
    /\ LET r == RawRead(q.reader, disk)
           u == Unpickle(r)
           eof == q.reader.strict /\ r.pos = q.reader.pos
           state == IF u.state = "more" /\ eof THEN "raised" ELSE u.state
           src == IF q.reader.pos = 0 THEN held ELSE q.src
           found == Lookup(Result(u.m), q.fen)
       IN  /\ q' = IF state = "more"
                   THEN [q EXCEPT !.reader = Await(q.reader, r, u.want),
                                  !.src = src]
                   ELSE NoQuery
           /\ out' = CASE state = "more" -> NoOutput
                       [] state = "raised" ->
                            [set |-> TRUE, fen |-> q.fen, error |-> TRUE,
                             printed |-> to_dict(NewStats),
                             reader |-> r, src |-> src]
                       [] state = "done" ->
                            [set |-> TRUE, fen |-> q.fen,
                             error |-> found.raised,
                             printed |-> found.printed,
                             reader |-> r, src |-> src]
    /\ last' = NoLast
    /\ UNCHANGED <<pc, stats, disk, pickled, held, ingested, startDisk, nread>>

\* A step of the query command.
QueryStep ==
    \/ \E f \in QueryFens : QueryOpen(f)
    \/ \E f \in QueryFens : QueryOpenFails(f)
    \/ QueryRead

\* The build command.
Next ==
    \/ StartBuild
    \/ OpenFile
    \/ OpenFileFails
    \/ \E line \in Lines : ReadLine(line)
    \/ StreamFails
    \/ EndOfFile
    \/ SaveOpen
    \/ SaveOpenFails
    \/ SaveClose
    \/ \E n \in ShortWrites : SaveFails(n)

Spec == Init /\ [][Next]_vars

\* The build command and the query command, run against one index file.
NextQuery ==
    \/ StartBuild
    \/ OpenFile
    \/ OpenFileFails
    \/ \E line \in QueryLines : nread < MaxQueryLines /\ ReadLine(line)
    \/ StreamFails
    \/ EndOfFile
    \/ SaveOpen
    \/ SaveOpenFails
    \/ SaveClose
    \/ \E n \in ShortWrites : SaveFails(n)
    \/ \E f \in QueryFens : QueryOpen(f)
    \/ \E f \in QueryFens : QueryOpenFails(f)
    \/ QueryRead

SpecQuery == Init /\ [][NextQuery]_vars

\* ------------------------------------------------- vocabulary of the claims
KnownResults == {"1-0", "0-1", "1/2-1/2"}

ResultTokens == KnownResults \cup {"*"}

\* One more game with result r in the bucket that r names.
Bump(s, r) ==
    [white |-> s.white + (IF r = "1-0" THEN 1 ELSE 0),
     draws |-> s.draws + (IF r = "1/2-1/2" THEN 1 ELSE 0),
     black |-> s.black + (IF r = "0-1" THEN 1 ELSE 0)]

\* An index as a mapping, the order of its items forgotten.
AsMap(d) == [k \in Keys(d) |-> Get(d, k)]

\* Bucket-wise sum of two indexes, as a mapping.
Merge(a, b) ==
    [k \in Keys(a) \cup Keys(b) |->
        [white |-> Get(a, k).white + Get(b, k).white,
         draws |-> Get(a, k).draws + Get(b, k).draws,
         black |-> Get(a, k).black + Get(b, k).black]]

\* The triple query_index is to print for a fen, given the index.
Answer(d, f) ==
    LET s == Get(d, f) IN
    [count |-> s.white + s.draws + s.black, white |-> s.white,
     draw |-> s.draws, black |-> s.black]

RECURSIVE AllLegal(_, _)
AllLegal(board, moves) ==
    \/ moves = <<>>
    \/ /\ push_san(board, Head(moves)).ok
       /\ AllLegal(push_san(board, Head(moves)).board, Tail(moves))

\* The identifiers a fully legal game visits: the start, then one per move.
RECURSIVE Positions(_, _)
Positions(board, moves) ==
    IF moves = <<>> THEN <<fen(board)>>
    ELSE <<fen(board)>> \o Positions(push_san(board, Head(moves)).board, Tail(moves))

NonBlank(line) == \E i \in 1..Len(line) : line[i] # WS

\* The words of a line that are not whitespace.
Words(line) == SelectSeq(line, LAMBDA w : w # WS)

\* Number of lines of the bag, with multiplicity, that are in the set.
RECURSIVE CountLines(_, _)
CountLines(bag, left) ==
    IF left = {} THEN 0
    ELSE LET l == CHOOSE x \in left : TRUE IN
         CopiesIn(l, bag) + CountLines(bag, left \ {l})

\* The index a build makes of a bag of lines none of which raises, taking
\* them in one fixed order.
RECURSIVE IndexOf(_)
IndexOf(bag) ==
    IF BagToSet(bag) = {} THEN EmptyIndex
    ELSE LET l == CHOOSE x \in BagToSet(bag) : TRUE IN
         IngestLine(IndexOf(bag (-) SetToBag({l})), l).stats

RootCount(idx) == count(Get(idx, fen(Board)))

FirstMoveReplays(line) ==
    /\ Len(Words(line)) >= 2
    /\ push_san(Board, Words(line)[1]).ok

SamePosition(k1, k2) ==
    /\ k1.placement = k2.placement
    /\ k1.turn = k2.turn
    /\ k1.castling = k2.castling
    /\ k1.ep = k2.ep

\* ----------------------------------------------------------------- claims
\* C1: when a move token of a game is illegal, only the replay of that game
\* stops: the build goes on with the next line (and later saves the index).
C1_IllegalMoveStopsOnlyThatGame ==
    (last.set /\ last.raised) => pc = "reading"

\* C2: saving is atomic: at every point the destination file holds either
\* the content it had when the build began or the complete new index.
C2_SaveIsAtomic ==
    \/ disk = startDisk
    \/ /\ pc \in {"saving", "done"}
       /\ disk = WholeFile(Serialize(stats))

\* C3: the index key depends only on placement, side to move, castling
\* rights and en-passant target: two keys of the index that agree on these
\* four fields are the same key.
C3_KeyIgnoresMoveCounters ==
    \A k1 \in Keys(stats) : \A k2 \in Keys(stats) :
        SamePosition(k1, k2) => k1 = k2

\* C4: a game whose result token is not 1-0, 0-1 or 1/2-1/2 changes no
\* bucket of any position.
C4_UnknownResultChangesNothing ==
    (/\ last.set
     /\ ~last.raised
     /\ NonBlank(last.line)
     /\ Words(last.line)[Len(Words(last.line))] \notin KnownResults)
    => AsMap(stats) = AsMap(last.before)

\* C5: a game of n legal moves with a known result r adds exactly one to
\* bucket r of exactly the n+1 identifiers visited, and changes nothing else.
C5_ExactlyTheVisitedIdentifiers ==
    LET g == parse_game(last.line) IN
    (/\ last.set
     /\ ~g.none
     /\ g.result \in KnownResults
     /\ AllLegal(Board, g.moves))
    => LET ps == Positions(Board, g.moves)
           visited == {ps[i] : i \in 1..Len(ps)}
       IN  /\ ~last.raised
           /\ Len(ps) = Len(g.moves) + 1
           /\ Cardinality(visited) = Len(g.moves) + 1
           /\ Keys(stats) = Keys(last.before) \cup visited
           /\ \A k \in Keys(stats) :
                Get(stats, k) = IF k \in visited
                                THEN Bump(Get(last.before, k), g.result)
                                ELSE Get(last.before, k)

C5_Witness ==
    LET g == parse_game(last.line) IN
    /\ last.set
    /\ ~g.none
    /\ g.result = "1/2-1/2"
    /\ Len(g.moves) = 4
    /\ AllLegal(Board, g.moves)
    /\ RootCount(last.before) >= 1

\* C6: a build against a destination that already holds an index is
\* additive: the persisted counts are the previous ones plus this run's.
C6_BuildIsAdditive ==
    (pc = "done" /\ Loadable(startDisk))
    => /\ Loadable(disk)
       /\ AsMap(Load(disk)) = Merge(Load(startDisk), stats)

\* C7: aggregation is order-independent: however the lines read so far are
\* split in two, the bucket-wise sum of the indexes built from the two parts
\* is the index built from all of them in the order they were read; the
\* persisted index of a completed build is that same index.
C7_SplitAndMerge ==
    (pc # "failed")
    => /\ \A part \in SubBag(ingested) :
            Merge(IndexOf(part), IndexOf(ingested (-) part)) = AsMap(stats)
       /\ pc = "done" => (Loadable(disk) /\ AsMap(Load(disk)) = AsMap(stats))

C7_Witness ==
    /\ pc = "done"
    /\ BagCardinality(ingested) = 3
    /\ Cardinality(BagToSet(ingested)) >= 2
    /\ \E k \in Keys(stats) :
         /\ Get(stats, k).white >= 1
         /\ Get(stats, k).black >= 1
         /\ Get(stats, k).draws >= 1

\* C8: a query that reads a persisted index (the file holds the whole
\* stream of an index when pickle.load reads it) ends without an error and
\* prints what that index holds for its fen - the zero triple for a key
\* that is absent, the stored white, draw and black counts with count
\* their sum for a key that is present; and no step of a query changes
\* the file.
C8_QueryAnswer ==
    /\ [](out.set /\ out.src.full
          => /\ ~out.error
             /\ out.printed = Answer(out.src.index, out.fen)
             /\ out.fen \notin Keys(out.src.index)
                  => out.printed
                       = [count |-> 0, white |-> 0, draw |-> 0, black |-> 0])
    /\ [][QueryStep => disk' = disk]_vars

C8_Witness ==
    /\ out.set
    /\ out.src.full
    /\ out.fen \in Keys(out.src.index)
    /\ out.printed.white >= 1
    /\ out.printed.black >= 1
    /\ out.printed.count = 2
    /\ pc = "reading"

\* C9 as stated: after a build the count stored at the root position is the
\* number of games whose first move replayed successfully.
C9_RootCountsFirstMoveReplayed ==
    pc = "done"
    => RootCount(Load(disk))
         = CountLines(ingested, {l \in BagToSet(ingested) : FirstMoveReplays(l)})

\* C9 amended: the count at the root position is the number of non-blank
\* lines read so far by the run (games without moves, with an unknown
\* result or with an illegal first move included); a completed build
\* persists that count.
C9_RootCountsNonBlankLines ==
    /\ RootCount(stats)
         = CountLines(ingested, {l \in BagToSet(ingested) : NonBlank(l)})
    /\ pc = "done"
         => RootCount(Load(disk))
              = CountLines(ingested, {l \in BagToSet(ingested) : NonBlank(l)})

C9_Witness ==
    /\ pc = "done"
    /\ BagIn(BlankLine, ingested)
    /\ BagIn(TextLine(<<"1-0">>), ingested)
    /\ RootCount(Load(disk)) = 2

\* C10: a blank line or a line without a result field leaves the index
\* unchanged and raises nothing.
C10_IncompleteLineSkipped ==
    (/\ last.set
     /\ \/ ~NonBlank(last.line)
        \/ Words(last.line)[Len(Words(last.line))] \notin ResultTokens)
    => (stats = last.before /\ ~last.raised /\ pc = "reading")

\* ------------------------------------------------------- further checks
\* Round trip: the file can be loaded exactly when it holds the whole
\* stream of an index, and what is loaded is that index.
RoundTrip ==
    /\ Loadable(disk) <=> held.full
    /\ held.full => Load(disk) = held.index

\* A query for a key that the persisted index has not prints the zero
\* triple.
AbsentKeyAnswered ==
    /\ out.set
    /\ out.src.full
    /\ ~out.error
    /\ Keys(out.src.index) # {}
    /\ out.fen \notin Keys(out.src.index)

\* A query that reads the file a failed save has left (C2) ends with an
\* exception when nothing more is written ...
PartialFileRaises ==
    /\ out.set
    /\ out.error
    /\ ~out.src.full
    /\ out.reader.data # <<>>
    /\ pc = "failed"

\* ... and prints counts when a later build saves a stream whose rest
\* fits what the query has read.
PartialFileAnswered ==
    /\ out.set
    /\ ~out.error
    /\ ~out.src.full
    /\ out.reader.alone

\* A query that finds the file empty (between the open and the close of a
\* save) reads the index that the close writes.
EmptyFileThenAnswered ==
    /\ out.set
    /\ ~out.error
    /\ ~out.src.full
    /\ ~out.reader.alone
    /\ out.printed.count >= 1

====
